---- MODULE Spec2Model ----
(***************************************************************************)
(* Model of the Hospital Accreditation Hub (src/app.py): string helpers,   *)
(* record normalization, multi-sheet aggregation, the cached page          *)
(* lifecycle with its refresh button, and the filter/sort engine.          *)
(*                                                                         *)
(* Python strings are sequences of one-character strings.  A raw cell      *)
(* value is a record [k, s]: k is "str" (s its characters), "num" (s the   *)
(* characters of str(x)), "none" (None) or "nan" (float NaN).              *)
(***************************************************************************)
EXTENDS Integers, Sequences, FiniteSets, TLC

VARIABLES
    tagRaw,      \* SpecTags: the raw tags string under test
    tagHist,     \* SpecTags: results of successive tag normalizations
    rawFrame,    \* SpecNorm: the DataFrame built from the sheet's raw records
    normOut,     \* SpecNorm: normalize_df's result, with the keep mask it computed
    cards,       \* SpecNorm: the cards rendered from the normalized frame
    ids,         \* SpecLoad: ids_or_names, the list load_many is called with
    keysUp,      \* SpecLoad: spreadsheet IDs the Row Source opens by key
    namesUp,     \* SpecLoad: spreadsheet names the Row Source opens by name
    sheetRows,   \* SpecLoad: number of records of each spreadsheet
    loadPc,      \* SpecLoad: "loop", "done" (returned), "raised" (exception left load_many)
    loadI,       \* SpecLoad: position of the for loop in ids
    frames,      \* SpecLoad: the frames list of load_many
    loaded,      \* SpecLoad: the frame load_many returned
    secrets,     \* Spec: which of [app].sheet_ids ("ids"), sheet_name ("name") is set, or "none"
    clock,       \* Spec: seconds since the app started
    sheetVersion, \* Spec: edits made to the spreadsheet so far (it holds that many records)
    sourceUp,    \* Spec: whether the Row Source can open the configured spreadsheet
    cache,       \* Spec: the st.cache_data entry of the load call
    refreshes,   \* Spec: number of st.cache_data.clear() calls so far
    page,        \* Spec: what the last script run left on the page
    viewDf,      \* SpecView: df, the loaded collection with __source_name
    filt,        \* SpecView: the sidebar's widget values
    view,        \* SpecView: the filtered, sorted rows
    viewPc       \* SpecView: "loaded" before the filters ran, then "shown"

tagVars == <<tagRaw, tagHist>>
normVars == <<rawFrame, normOut, cards>>
loadVars == <<ids, keysUp, namesUp, sheetRows, loadPc, loadI, frames, loaded>>
pageVars == <<secrets, clock, sheetVersion, sourceUp, cache, refreshes, page>>
viewVars == <<viewDf, filt, view, viewPc>>
vars == <<tagVars, normVars, loadVars, pageVars, viewVars>>

(***************************************************************************)
(* Strings                                                                 *)
(***************************************************************************)
Whitespace == {" "}

ToLower ==
    ("A" :> "a") @@ ("B" :> "b") @@ ("N" :> "n") @@ ("H" :> "h") @@
    ("T" :> "t") @@ ("P" :> "p") @@ ("X" :> "x") @@ ("Y" :> "y")

LowerChar(c) == IF c \in DOMAIN ToLower THEN ToLower[c] ELSE c

\* str.lower()
Lower(s) == [i \in 1..Len(s) |-> LowerChar(s[i])]

RECURSIVE LStrip(_)
LStrip(s) ==
    IF s # <<>> /\ Head(s) \in Whitespace THEN LStrip(Tail(s)) ELSE s

RECURSIVE RStrip(_)
RStrip(s) ==
    IF s # <<>> /\ s[Len(s)] \in Whitespace
    THEN RStrip(SubSeq(s, 1, Len(s) - 1))
    ELSE s

\* str.strip()
Strip(s) == RStrip(LStrip(s))

\* Index of the first occurrence of a character of cs in s, 0 when none.
FirstOf(s, cs) ==
    IF \E i \in 1..Len(s) : s[i] \in cs
    THEN CHOOSE i \in 1..Len(s) : s[i] \in cs /\ \A j \in 1..(i - 1) : s[j] \notin cs
    ELSE 0

\* str.split(sep) for a one-character separator
RECURSIVE Split(_, _)
Split(s, sep) ==
    LET i == FirstOf(s, {sep})
    IN  IF i = 0
        THEN <<s>>
        ELSE <<SubSeq(s, 1, i - 1)>> \o Split(SubSeq(s, i + 1, Len(s)), sep)

\* sep.join(parts)
RECURSIVE Join(_, _)
Join(parts, sep) ==
    IF parts = <<>> THEN <<>>
    ELSE IF Len(parts) = 1 THEN parts[1]
    ELSE parts[1] \o <<sep>> \o Join(Tail(parts), sep)

\* b in a  (substring test)
Contains(a, b) ==
    \E i \in 0..(Len(a) - Len(b)) : SubSeq(a, i + 1, i + Len(b)) = b

StringsUpTo(chars, n) == UNION {[1..k -> chars] : k \in 0..n}

(***************************************************************************)
(* Raw cell values                                                         *)
(***************************************************************************)
NoneVal == [k |-> "none", s |-> <<>>]
NaNVal == [k |-> "nan", s |-> <<>>]
StrVal(s) == [k |-> "str", s |-> s]

\* pd.isna(x) on a scalar
IsNa(x) == x.k \in {"none", "nan"}

safe_str(x) ==
    IF IsNa(x)
    THEN <<>>
    ELSE LET s == Strip(x.s)
         IN  IF Lower(s) = <<"n", "a", "n">> THEN <<>> ELSE s

split_tags(x) ==
    LET parts == Split(safe_str(x), ";")
        stripped == [i \in 1..Len(parts) |-> Strip(parts[i])]
    IN  SelectSeq(stripped, LAMBDA t : t # <<>>)

\* the lambda of normalize_df that re-serializes the tags column
NormTags(x) == Join(split_tags(x), ";")

(***************************************************************************)
(* URLs (urllib.parse.urlparse as norm_link and _sheet_id use it)          *)
(***************************************************************************)
Letters ==
    {"a", "b", "c", "d", "e", "f", "g", "h", "i", "j", "k", "l", "m", "n",
     "o", "p", "q", "r", "s", "t", "u", "v", "w", "x", "y", "z"}
        \cup DOMAIN ToLower
Digits == {"0", "1", "2", "3", "4", "5", "6", "7", "8", "9"}
SchemeChars == Letters \cup Digits \cup {"+", "-", "."}

\* s up to its first character of cs (all of s when there is none)
Before(s, cs) ==
    LET i == FirstOf(s, cs)
    IN  IF i = 0 THEN s ELSE SubSeq(s, 1, i - 1)

\* s from its first character of cs on (<<>> when there is none)
From(s, cs) ==
    LET i == FirstOf(s, cs)
    IN  IF i = 0 THEN <<>> ELSE SubSeq(s, i, Len(s))

\* length of the URL scheme s starts with, 0 when it has none
SchemeLen(s) ==
    LET i == FirstOf(s, {":"})
    IN  IF /\ i > 1
           /\ s[1] \in Letters
           /\ \A j \in 1..(i - 1) : s[j] \in SchemeChars
        THEN i - 1
        ELSE 0

HasNetloc(url) == Len(url) >= 2 /\ url[1] = "/" /\ url[2] = "/"

\* the authority of a URL whose scheme is already cut off
Netloc(url) ==
    IF HasNetloc(url)
    THEN Before(SubSeq(url, 3, Len(url)), {"/", "?", "#"})
    ELSE <<>>

\* what follows the authority: path, query and fragment
AfterNetloc(url) ==
    IF HasNetloc(url)
    THEN From(SubSeq(url, 3, Len(url)), {"/", "?", "#"})
    ELSE url

\* the query of path?query#fragment
Query(rest) ==
    LET q == From(Before(rest, {"#"}), {"?"})
    IN  IF q = <<>> THEN <<>> ELSE Tail(q)

UrlParts(scheme, url) ==
    [ok |-> ~(\E j \in 1..Len(Netloc(url)) : Netloc(url)[j] = "["),
     scheme |-> scheme,
     netloc |-> Netloc(url),
     query |-> Query(AfterNetloc(url))]

\* [ok, scheme, netloc, query] of urlparse(s); ok is FALSE where it raises
\* ValueError (an unmatched bracket in the authority).
UrlParse(s) ==
    IF SchemeLen(s) = 0
    THEN UrlParts(<<>>, s)
    ELSE UrlParts(Lower(SubSeq(s, 1, SchemeLen(s))),
                  SubSeq(s, SchemeLen(s) + 2, Len(s)))

HTTP == <<"h", "t", "t", "p">>
SLASHES == <<":", "/", "/">>
HttpSchemes == {HTTP, HTTP \o <<"s">>}

norm_link(x) ==
    LET s == safe_str(x)
        p == UrlParse(s)
    IN  IF s = <<>> THEN <<>>
        ELSE IF ~p.ok THEN <<>>
        ELSE IF p.scheme \in HttpSchemes /\ p.netloc # <<>> THEN s
        ELSE <<>>

(***************************************************************************)
(* Timestamps: a parsed updated_at is [na, t]; NaT has na = TRUE.          *)
(***************************************************************************)
NaT == [na |-> TRUE, t |-> 0]

DigitValue ==
    ("0" :> 0) @@ ("1" :> 1) @@ ("2" :> 2) @@ ("3" :> 3) @@ ("4" :> 4) @@
    ("5" :> 5) @@ ("6" :> 6) @@ ("7" :> 7) @@ ("8" :> 8) @@ ("9" :> 9)

RECURSIVE Decimal(_)
Decimal(s) ==
    IF s = <<>> THEN 0
    ELSE 10 * Decimal(SubSeq(s, 1, Len(s) - 1)) + DigitValue[s[Len(s)]]

\* pd.to_datetime(x, errors="coerce") on one cell: a four-digit year parses
\* to a timestamp (numbered by the year); anything else here is NaT.
to_datetime(x) ==
    IF IsNa(x) THEN NaT
    ELSE LET s == Strip(x.s)
         IN  IF Len(s) = 4 /\ \A j \in 1..4 : s[j] \in Digits
             THEN [na |-> FALSE, t |-> Decimal(s)]
             ELSE NaT

(***************************************************************************)
(* normalize_df                                                            *)
(* A frame is [cols, rows]: rows are functions from the column names.      *)
(***************************************************************************)
CanonCols == {"title", "category", "tags", "owner", "notes", "drive_link"}
EmptyFrame == [cols |-> {}, rows |-> <<>>]

\* a cell of a raw row, "" for a column normalize_df had to add
Cell(r, c) == IF c \in DOMAIN r THEN r[c] ELSE StrVal(<<>>)

\* the column coercions of normalize_df on one row
CoerceRow(r) ==
    [c \in DOMAIN r \cup CanonCols |->
        CASE c \in {"title", "category", "owner", "notes"} -> safe_str(Cell(r, c))
          [] c = "tags" -> NormTags(StrVal(safe_str(Cell(r, c))))
          [] c = "drive_link" -> norm_link(Cell(r, c))
          [] c = "updated_at" -> to_datetime(r[c])
          [] OTHER -> r[c]]

\* mask_empty of normalize_df, on a coerced row
MaskEmpty(r) ==
    r["title"] = <<>> /\ r["drive_link"] = <<>> /\ r["notes"] = <<>>

\* ~mask_empty, row by row
KeepMask(frame) ==
    [i \in 1..Len(frame.rows) |-> ~MaskEmpty(CoerceRow(frame.rows[i]))]

normalize_df(frame) ==
    LET coerced == [i \in 1..Len(frame.rows) |-> CoerceRow(frame.rows[i])]
    IN  [cols |-> frame.cols \cup CanonCols,
         rows |-> SelectSeq(coerced, LAMBDA r : ~MaskEmpty(r))]

\* one card of the results section: the title, and the 'Open in Drive'
\* button when norm_link of the stored link is non-empty
Card(r) ==
    LET link == norm_link(StrVal(r["drive_link"]))
    IN  [title |-> r["title"], button |-> link # <<>>, link |-> link]

(***************************************************************************)
(* _sheet_id                                                               *)
(***************************************************************************)
IdChars == Letters \cup Digits \cup {"_", "-"}

\* the positions of s where the pattern /d/[A-Za-z0-9_-] matches
IdMatches(s) ==
    {i \in 1..(Len(s) - 3) :
        /\ s[i] = "/" /\ s[i + 1] = "d" /\ s[i + 2] = "/"
        /\ s[i + 3] \in IdChars}

\* the longest prefix of s made of ID characters
IdRun(s) == Before(s, {s[j] : j \in 1..Len(s)} \ IdChars)

\* group 1 of re.search(r"/d/([A-Za-z0-9_-]+)", s), <<>> when no match
RegexId(s) ==
    IF IdMatches(s) = {} THEN <<>>
    ELSE LET i == CHOOSE a \in IdMatches(s) : \A b \in IdMatches(s) : a <= b
         IN  IdRun(SubSeq(s, i + 3, Len(s)))

\* up.parse_qsl(q): the name/value pairs with a non-blank value
ParseQsl(q) ==
    LET parts == Split(q, "&")
        pairs == [i \in 1..Len(parts) |->
                    LET e == FirstOf(parts[i], {"="})
                    IN  IF e = 0 THEN <<parts[i], <<>>>>
                        ELSE <<SubSeq(parts[i], 1, e - 1),
                               SubSeq(parts[i], e + 1, Len(parts[i]))>>]
    IN  SelectSeq(pairs, LAMBDA nv : nv[2] # <<>>)

\* dict(parse_qsl(q)).get("id"), <<>> when there is none
QueryId(q) ==
    LET hits == SelectSeq(ParseQsl(q), LAMBDA nv : nv[1] = <<"i", "d">>)
    IN  IF hits = <<>> THEN <<>> ELSE hits[Len(hits)][2]

_sheet_id(x) ==
    LET s == safe_str(x)
        m == RegexId(s)
        q == UrlParse(s).query
    IN  IF m # <<>> THEN m
        ELSE IF q # <<>> /\ QueryId(q) # <<>> THEN QueryId(q)
        ELSE s

(***************************************************************************)
(* The Row Source, and load_many's loop body and result                    *)
(***************************************************************************)
DigitChar(n) == <<"0", "1", "2", "3", "4", "5", "6", "7", "8", "9">>[n + 1]

\* the columns of a spreadsheet: only spreadsheet B has an updated_at column
SheetCols(sheet) ==
    IF sheet = <<"B">> THEN CanonCols \cup {"updated_at"} ELSE CanonCols

\* record r of a spreadsheet: every second record is content-free, the
\* others carry the spreadsheet's name and their position
SheetRecord(sheet, r) ==
    [c \in SheetCols(sheet) |->
        CASE c = "title" /\ r % 2 = 1 -> StrVal(<<" ">> \o sheet \o <<DigitChar(r)>>)
          [] c = "drive_link" /\ r % 2 = 1 -> StrVal(HTTP \o SLASHES \o <<"h">>)
          [] c = "category" -> StrVal(<<"X">>)
          [] c = "updated_at" -> StrVal(<<"2", "0", "2", DigitChar(r)>>)
          [] OTHER -> StrVal(<<>>)]

\* pd.DataFrame(ws.get_all_records()) for a spreadsheet of n records
get_all_records(sheet, n) ==
    [cols |-> IF n = 0 THEN {} ELSE SheetCols(sheet),
     rows |-> [r \in 1..n |-> SheetRecord(sheet, r)]]

\* df["__source"] = key
WithSource(frame, key) ==
    [cols |-> frame.cols \cup {"__source"},
     rows |-> [i \in 1..Len(frame.rows) |->
                  [c \in DOMAIN frame.rows[i] \cup {"__source"} |->
                      IF c = "__source" THEN key ELSE frame.rows[i][c]]]]

RECURSIVE FlattenRows(_)
FlattenRows(fs) ==
    IF fs = <<>> THEN <<>> ELSE Head(fs).rows \o FlattenRows(Tail(fs))

ConcatReversed(fs) ==
    LET cols == UNION {fs[i].cols : i \in 1..Len(fs)}
        rev == [i \in 1..Len(fs) |-> fs[Len(fs) + 1 - i]]
        rows == FlattenRows(rev)
    IN  IF fs = <<>> THEN EmptyFrame
        ELSE [cols |-> cols,
              rows |-> [i \in 1..Len(rows) |->
                          [c \in cols |-> IF c \in DOMAIN rows[i] THEN rows[i][c]
                                          ELSE NaT]]]

\* pd.concat(frames, ignore_index=True) if frames else pd.DataFrame(): the
\* union of the columns, a frame's missing updated_at filled with NaT
Concat(fs) ==
    LET cols == UNION {fs[i].cols : i \in 1..Len(fs)}
        rows == FlattenRows(fs)
    IN  IF fs = <<>> THEN EmptyFrame
        ELSE [cols |-> cols,
              rows |-> [i \in 1..Len(rows) |->
                          [c \in cols |-> IF c \in DOMAIN rows[i] THEN rows[i][c]
                                          ELSE NaT]]]

(***************************************************************************)
(* Each specification exercises one part of the program; the variables of  *)
(* the other parts rest at these values.                                   *)
(***************************************************************************)
NoNorm == [done |-> FALSE, frame |-> EmptyFrame, mask |-> <<>>]
NoCards == [done |-> FALSE, items |-> <<>>]
NoEntry == [has |-> FALSE, at |-> 0, version |-> 0, epoch |-> 0, frame |-> EmptyFrame]
NoFilter ==
    [q |-> <<>>, sel_cat |-> {}, sel_tag |-> {}, sel_src |-> {},
     sort_by |-> "title asc"]
BlankPage ==
    [state |-> "blank", message |-> FALSE, refresh |-> FALSE, df |-> NoEntry,
     passAt |-> 0]

IdleTags == tagRaw = <<>> /\ tagHist = <<>>
IdleNorm == rawFrame = EmptyFrame /\ normOut = NoNorm /\ cards = NoCards
IdleLoad ==
    /\ ids = <<>> /\ keysUp = {} /\ namesUp = {} /\ sheetRows = <<>>
    /\ loadPc = "idle" /\ loadI = 0 /\ frames = <<>> /\ loaded = EmptyFrame
IdleView == viewDf = EmptyFrame /\ filt = NoFilter /\ view = <<>> /\ viewPc = "idle"
IdlePage ==
    /\ secrets = "none" /\ clock = 0 /\ sheetVersion = 0 /\ sourceUp = FALSE
    /\ cache = NoEntry /\ refreshes = 0 /\ page = BlankPage

(***************************************************************************)
(* SpecTags: tag normalization applied repeatedly to one raw tags string   *)
(***************************************************************************)
MaxTagLen == 4
TagChars == {"n", "a", " ", ";"}

InitTags ==
    /\ tagRaw \in StringsUpTo(TagChars, MaxTagLen)
    /\ tagHist = <<>>
    /\ IdleNorm /\ IdleLoad /\ IdlePage /\ IdleView

NormalizeTags ==
    /\ Len(tagHist) < 2
    /\ tagHist' = Append(tagHist,
                         NormTags(StrVal(IF tagHist = <<>> THEN tagRaw
                                         ELSE tagHist[Len(tagHist)])))
    /\ UNCHANGED <<tagRaw, normVars, loadVars, pageVars, viewVars>>

NextTags == NormalizeTags

SpecTags == InitTags /\ [][NextTags]_vars

\* C10: tag normalization is idempotent: N(N(s)) = N(s) and
\* split_tags(N(s)) = split_tags(s), with N(s) = ';'.join(split_tags(s)).
C10_TagsIdempotent ==
    Len(tagHist) = 2 =>
        /\ tagHist[2] = tagHist[1]
        /\ split_tags(StrVal(tagHist[1])) = split_tags(StrVal(tagRaw))

(***************************************************************************)
(* SpecNorm: one sheet's raw records through normalize_df and the cards    *)
(***************************************************************************)
MaxNormRows == 2

NormTitleVals ==
    {StrVal(<<>>), StrVal(<<" ", "T">>), StrVal(<<"N", "a", "N">>), NaNVal}
NormLinkVals ==
    {StrVal(<<>>), NoneVal,
     StrVal(<<"f", "t", "p">> \o SLASHES \o <<"h">>),
     StrVal(<<" ">> \o HTTP \o SLASHES \o <<"h">>),
     StrVal(HTTP \o SLASHES \o <<":", "8">>),
     StrVal(<<"H", "T", "T", "P", "S">> \o SLASHES \o <<"h", "/", "p">>),
     StrVal(<<"x", " ", "y">>)}
NormNotesVals == {StrVal(<<" ">>), StrVal(<<"n">>)}
NormOtherVals ==
    {[category |-> StrVal(<<>>), owner |-> StrVal(<<>>), tags |-> StrVal(<<>>),
      updated_at |-> StrVal(<<>>)],
     [category |-> StrVal(<<" ", "X">>), owner |-> StrVal(<<"o">>),
      tags |-> StrVal(<<" ", "a", ";", " ", ";", "b">>),
      updated_at |-> StrVal(<<"2", "0", "2", "1">>)]}

AllCols == CanonCols \cup {"updated_at"}
NormColumnSets == {AllCols, CanonCols, {"title", "category", "updated_at"}}

NormFullRows ==
    {[c \in AllCols |->
        CASE c = "title" -> t
          [] c = "drive_link" -> l
          [] c = "notes" -> n
          [] OTHER -> o[c]] :
        t \in NormTitleVals, l \in NormLinkVals, n \in NormNotesVals,
        o \in NormOtherVals}

\* the frames pd.DataFrame(raw) can be: every record has the sheet's columns
RawFrames(fullRows, columnSets, maxRows) ==
    UNION {
        LET rows == {[c \in cols |-> full[c]] : full \in fullRows}
        IN  {[cols |-> cols, rows |-> rs] :
                rs \in UNION {[1..k -> rows] : k \in 0..maxRows}} :
        cols \in columnSets}

InitNorm ==
    /\ rawFrame \in RawFrames(NormFullRows, NormColumnSets, MaxNormRows)
    /\ normOut = NoNorm
    /\ cards = NoCards
    /\ IdleTags /\ IdleLoad /\ IdlePage /\ IdleView

\* df = normalize_df(df)
Normalize ==
    /\ ~normOut.done
    /\ normOut' = [done |-> TRUE, frame |-> normalize_df(rawFrame),
                   mask |-> KeepMask(rawFrame)]
    /\ UNCHANGED <<rawFrame, cards, tagVars, loadVars, pageVars, viewVars>>

\* the results section over the normalized frame
RenderCards ==
    /\ normOut.done
    /\ ~cards.done
    /\ cards' = [done |-> TRUE,
                 items |-> [j \in 1..Len(normOut.frame.rows) |->
                               Card(normOut.frame.rows[j])]]
    /\ UNCHANGED <<rawFrame, normOut, tagVars, loadVars, pageVars, viewVars>>

NextNorm == Normalize \/ RenderCards

SpecNorm == InitNorm /\ [][NextNorm]_vars

\* indices of the raw rows the mask keeps, in order
KeptIdx(mask) ==
    SelectSeq([i \in 1..Len(mask) |-> i], LAMBDA i : mask[i])

\* a raw cell that is empty: null, NaN, or blank text
RawEmpty(x) == IsNa(x) \/ Strip(x.s) = <<>>

\* what follows the last '@' of an authority
HostInfo(netloc) ==
    LET ats == {i \in 1..Len(netloc) : netloc[i] = "@"}
    IN  IF ats = {} THEN netloc
        ELSE SubSeq(netloc, (CHOOSE i \in ats : \A j \in ats : j <= i) + 1,
                    Len(netloc))

\* host of an authority, as urllib's hostname: after the last '@', up to ':'
Host(netloc) == Before(HostInfo(netloc), {":"})

\* a string that is an http(s) URL with a non-empty host
HttpUrlWithHost(s) ==
    LET p == UrlParse(s)
    IN  p.ok /\ p.scheme \in HttpSchemes /\ Host(p.netloc) # <<>>

\* C4: no record of normalize_df's output has title, drive_link and notes all
\* empty, and a raw row with empty title, empty or invalid link and empty
\* notes is dropped whatever its other columns hold.
C4_DiscardRule ==
    normOut.done =>
        /\ \A j \in 1..Len(normOut.frame.rows) :
              LET r == normOut.frame.rows[j]
              IN  ~(r["title"] = <<>> /\ r["drive_link"] = <<>> /\ r["notes"] = <<>>)
        /\ Len(normOut.frame.rows) = Len(KeptIdx(normOut.mask))
        /\ \A i \in 1..Len(rawFrame.rows) :
              LET raw == rawFrame.rows[i]
                  link == Cell(raw, "drive_link")
              IN  (/\ RawEmpty(Cell(raw, "title"))
                   /\ RawEmpty(Cell(raw, "notes"))
                   /\ (RawEmpty(link) \/ ~HttpUrlWithHost(Strip(link.s))))
                  => ~normOut.mask[i]

\* C4 witness: a raw row with a non-empty category, owner, tags and
\* updated_at but no title, link or notes was dropped, next to a kept row.
C4_Witness ==
    /\ normOut.done
    /\ \E i \in 1..Len(rawFrame.rows) :
          /\ ~normOut.mask[i]
          /\ ~RawEmpty(Cell(rawFrame.rows[i], "category"))
          /\ ~RawEmpty(Cell(rawFrame.rows[i], "drive_link"))
    /\ \E i \in 1..Len(rawFrame.rows) : normOut.mask[i]

\* C9: every record of the normalized output has a drive_link that is empty
\* or an http(s) URL with a non-empty host equal to the trimmed raw value;
\* any other raw link is stored empty and gets no 'Open in Drive' button.
C9_LinkValid ==
    normOut.done =>
        \A j \in 1..Len(normOut.frame.rows) :
            LET raw == Cell(rawFrame.rows[KeptIdx(normOut.mask)[j]], "drive_link")
                l == normOut.frame.rows[j]["drive_link"]
                good == ~IsNa(raw) /\ HttpUrlWithHost(Strip(raw.s))
            IN  /\ l = <<>> \/ (HttpUrlWithHost(l) /\ l = Strip(raw.s))
                /\ ~good => l = <<>>
                /\ cards.done => (cards.items[j].button <=> l # <<>>)

(***************************************************************************)
(* SpecLoad: load_many over a list of sheet identifiers                    *)
(***************************************************************************)
MaxSources == 2
MaxSheetRows == 3

\* a share URL, an open?id= URL, and a plain spreadsheet name
Idents ==
    {<<"u", "/", "d", "/", "A", "/", "e">>,
     <<"o", "?", "x", "=", "1", "&", "i", "d", "=", "B">>,
     <<" ", "N">>}
LoadKeys == {_sheet_id(StrVal(i)) : i \in Idents}

InitLoad ==
    /\ ids \in UNION {[1..k -> Idents] : k \in 0..MaxSources}
    /\ keysUp \in SUBSET LoadKeys
    /\ namesUp \in SUBSET Idents
    /\ sheetRows \in [LoadKeys -> {0, MaxSheetRows - 1, MaxSheetRows}]
    /\ loadPc = "loop"
    /\ loadI = 1
    /\ frames = <<>>
    /\ loaded = EmptyFrame
    /\ IdleTags /\ IdleNorm /\ IdlePage /\ IdleView

\* the spreadsheet the loop body opens for ident, by key or else by name:
\* spreadsheets are labelled by the ID their identifier resolves to
Opened(ident) == _sheet_id(StrVal(ident))

CanOpen(ident) == _sheet_id(StrVal(ident)) \in keysUp \/ ident \in namesUp

\* one pass of the for loop that fetches its spreadsheet
FetchSource ==
    /\ loadPc = "loop"
    /\ loadI <= Len(ids)
    /\ CanOpen(ids[loadI])
    /\ LET key == _sheet_id(StrVal(ids[loadI]))
           sheet == Opened(ids[loadI])
           df == get_all_records(sheet, sheetRows[sheet])
       IN  frames' = Append(frames, normalize_df(WithSource(df, key)))
    /\ loadI' = loadI + 1
    /\ UNCHANGED <<ids, keysUp, namesUp, sheetRows, loadPc, loaded, tagVars, normVars, pageVars, viewVars>>

\* one pass of the for loop in which gc.open_by_key(key) and then
\* gc.open(ident) raise: the exception leaves load_many
FetchRaises ==
    /\ loadPc = "loop"
    /\ loadI <= Len(ids)
    /\ ~CanOpen(ids[loadI])
    /\ loadPc' = "raised"
    /\ UNCHANGED <<ids, keysUp, namesUp, sheetRows, loadI, frames, loaded, tagVars, normVars, pageVars, viewVars>>

\* the return statement of load_many
ReturnFrames ==
    /\ loadPc = "loop"
    /\ loadI > Len(ids)
    /\ loaded' = Concat(frames)
    /\ loadPc' = "done"
    /\ UNCHANGED <<ids, keysUp, namesUp, sheetRows, loadI, frames, tagVars, normVars, pageVars, viewVars>>

NextLoad == FetchSource \/ FetchRaises \/ ReturnFrames

SpecLoad == InitLoad /\ [][NextLoad]_vars

\* the surviving normalized records of the spreadsheet source i resolves to
SourceRecords(i) ==
    LET sheet == Opened(ids[i])
    IN  normalize_df(get_all_records(sheet, sheetRows[sheet])).rows

RECURSIVE Offset(_)
Offset(i) == IF i <= 1 THEN 0 ELSE Offset(i - 1) + Len(SourceRecords(i - 1))

\* C8: load_many returns the concatenation of each source's surviving
\* normalized records in source order and, within a source, in row order;
\* every record carries the resolved ID of its source; an empty source list
\* yields an empty collection.
C8_AggregationOrder ==
    loadPc = "done" =>
        /\ Len(loaded.rows) = Offset(Len(ids) + 1)
        /\ \A i \in 1..Len(ids) :
              \A j \in 1..Len(SourceRecords(i)) :
                  LET got == loaded.rows[Offset(i) + j]
                      want == SourceRecords(i)[j]
                  IN  /\ \A c \in CanonCols : got[c] = want[c]
                      /\ got["__source"] = _sheet_id(StrVal(ids[i]))
        /\ ids = <<>> => loaded = EmptyFrame

\* C8 witness: two different sources, the first with two surviving records
\* (a content-free one dropped between them), the second with one.
C8_Witness ==
    /\ loadPc = "done"
    /\ Len(ids) = 2
    /\ ids[1] # ids[2]
    /\ Len(SourceRecords(1)) = 2
    /\ Len(SourceRecords(2)) = 1
    /\ Len(loaded.rows) = 3

\* C8 witness for the empty source list
C8_WitnessEmpty == loadPc = "done" /\ ids = <<>>

\* C1: when a source fails both lookups while another source of the list can
\* be fetched, load_many still returns, and what it returns holds the
\* records of every source that can be fetched.
C1_FailureIsolated ==
    (/\ loadPc \in {"done", "raised"}
     /\ \E i \in 1..Len(ids) : ~CanOpen(ids[i])
     /\ \E i \in 1..Len(ids) : CanOpen(ids[i]) /\ SourceRecords(i) # <<>>)
    => /\ loadPc = "done"
       /\ \A i \in 1..Len(ids) :
             CanOpen(ids[i]) =>
                \A j \in 1..Len(SourceRecords(i)) :
                    \E k \in 1..Len(loaded.rows) :
                        /\ loaded.rows[k]["title"] = SourceRecords(i)[j]["title"]
                        /\ loaded.rows[k]["__source"] = _sheet_id(StrVal(ids[i]))

(***************************************************************************)
(* Spec: the page script under Streamlit: every run loads through the      *)
(* cache (ttl=60), and 'Refresh now' clears the cache and reruns.          *)
(***************************************************************************)
TTL == 60
TickSeconds == 30
MaxTicks == 4
MaxEdits == 2
MaxRefreshes == 2

\* the one spreadsheet the secrets name
ConfiguredIdent == <<"u", "/", "d", "/", "A", "/", "e">>

\* what load_many(SHEET_IDS) returns for the spreadsheet holding n records
load_many(n) ==
    LET key == _sheet_id(StrVal(ConfiguredIdent))
    IN  Concat(<<normalize_df(WithSource(get_all_records(key, n), key))>>)

\* what load_df(SHEET_NAME) returns for the spreadsheet holding n records
load_df(n) ==
    normalize_df(get_all_records(_sheet_id(StrVal(ConfiguredIdent)), n))

\* the frame each load call returns, by configuration and number of records
LoadedFrame ==
    [s \in {"ids", "name"} |->
        [n \in 0..MaxEdits |-> IF s = "ids" THEN load_many(n) ELSE load_df(n)]]

CacheHitIgnoringTtl(entry, now) == entry.has

\* st.cache_data(ttl=60): an entry serves calls made less than ttl after
\* the call that computed it
CacheHit(entry, now) == entry.has /\ now - entry.at < TTL

\* the try block that loads df, on the cache entry c at time now, after ep
\* cache clears: the outcome, the cache afterwards and df
LoadData(c, now, ep) ==
    IF secrets = "none"
    THEN [outcome |-> "config_error", cache |-> c, df |-> NoEntry]
    ELSE IF CacheHit(c, now)
    THEN [outcome |-> "ok", cache |-> c, df |-> c]
    ELSE IF sourceUp
    THEN LET fetched == [has |-> TRUE, at |-> now, version |-> sheetVersion,
                         epoch |-> ep,
                         frame |-> LoadedFrame[secrets][sheetVersion]]
         IN  [outcome |-> "ok", cache |-> fetched, df |-> fetched]
    ELSE [outcome |-> "load_error", cache |-> c, df |-> NoEntry]

RequiredCols == {"title", "drive_link"}

\* the page a run leaves, given how the load ended: st.error and st.stop on
\* a failed load; otherwise the refresh button, then the required-columns
\* check, then the items
PageAfter(r, now) ==
    IF r.outcome # "ok"
    THEN [state |-> r.outcome, message |-> TRUE, refresh |-> FALSE,
          df |-> NoEntry, passAt |-> now]
    ELSE IF RequiredCols \ r.df.frame.cols # {}
    THEN [state |-> "columns_error", message |-> TRUE, refresh |-> TRUE,
          df |-> r.df, passAt |-> now]
    ELSE [state |-> "items", message |-> FALSE, refresh |-> TRUE,
          df |-> r.df, passAt |-> now]

Init ==
    /\ secrets \in {"ids", "name", "none"}
    /\ clock = 0
    /\ sheetVersion = 0
    /\ sourceUp \in BOOLEAN
    /\ cache = NoEntry
    /\ refreshes = 0
    /\ page = BlankPage
    /\ IdleTags /\ IdleNorm /\ IdleLoad /\ IdleView

\* a script run: the page is opened or reloaded, or a widget changed
RunScript ==
    /\ \E r \in {LoadData(cache, clock, refreshes)} :
          /\ cache' = r.cache
          /\ page' = PageAfter(r, clock)
    /\ UNCHANGED <<secrets, clock, sheetVersion, sourceUp, refreshes>>
    /\ UNCHANGED <<tagVars, normVars, loadVars, viewVars>>

\* the user presses 'Refresh now': the run loads df, reaches the button,
\* clears the cache and reruns; a run whose load fails stops before it
ClickRefresh ==
    /\ page.refresh
    /\ refreshes < MaxRefreshes
    /\ \E r1 \in {LoadData(cache, clock, refreshes)} :
          IF r1.outcome # "ok"
          THEN /\ cache' = r1.cache
               /\ page' = PageAfter(r1, clock)
               /\ refreshes' = refreshes
          ELSE \E r2 \in {LoadData(NoEntry, clock, refreshes + 1)} :
                  /\ cache' = r2.cache
                  /\ page' = PageAfter(r2, clock)
                  /\ refreshes' = refreshes + 1
    /\ UNCHANGED <<secrets, clock, sheetVersion, sourceUp>>
    /\ UNCHANGED <<tagVars, normVars, loadVars, viewVars>>

Tick ==
    /\ clock < MaxTicks * TickSeconds
    /\ clock' = clock + TickSeconds
    /\ UNCHANGED <<secrets, sheetVersion, sourceUp, cache, refreshes, page>>
    /\ UNCHANGED <<tagVars, normVars, loadVars, viewVars>>

\* somebody adds a record to the spreadsheet
EditSheet ==
    /\ sheetVersion < MaxEdits
    /\ sheetVersion' = sheetVersion + 1
    /\ UNCHANGED <<secrets, clock, sourceUp, cache, refreshes, page>>
    /\ UNCHANGED <<tagVars, normVars, loadVars, viewVars>>

\* the Row Source starts or stops answering for the spreadsheet
SourceFlips ==
    /\ sourceUp' = ~sourceUp
    /\ UNCHANGED <<secrets, clock, sheetVersion, cache, refreshes, page>>
    /\ UNCHANGED <<tagVars, normVars, loadVars, viewVars>>

Next == RunScript \/ ClickRefresh \/ Tick \/ EditSheet \/ SourceFlips

Spec == Init /\ [][Next]_vars

\* C2: after every error outcome of a run (no sheet identifiers, load
\* error, missing required columns) the page shows a message and the
\* refresh action can still be triggered.
C2_ErrorKeepsRefresh ==
    page.state \in {"config_error", "load_error", "columns_error"} =>
        page.message /\ page.refresh

\* C3: the collection a run works on was fetched after the most recent
\* refresh and no longer ago than the freshness window.
C3_FreshCollection ==
    page.state = "items" =>
        /\ page.df.has
        /\ page.df.epoch = refreshes
        /\ page.df.at <= page.passAt
        /\ page.passAt - page.df.at <= TTL

\* C3 witness: a run served from the cache, inside the window, an entry
\* fetched after a refresh and before a later edit of the spreadsheet.
C3_Witness ==
    /\ page.state = "items"
    /\ refreshes > 0
    /\ page.df.at < page.passAt
    /\ page.df.version < sheetVersion

(***************************************************************************)
(* The sidebar, the filters and the sort of the page script                *)
(***************************************************************************)
\* the friendly names of the known spreadsheet IDs (here: B is known)
SHEET_NAME_MAP == (<<"B">> :> <<"P", "o", "l">>)

\* df["__source_name"] = df["__source"].map(SHEET_NAME_MAP).fillna(df["__source"])
WithSourceNames(df) ==
    IF "__source" \notin df.cols THEN df
    ELSE [cols |-> df.cols \cup {"__source_name"},
          rows |-> [i \in 1..Len(df.rows) |->
                      [c \in df.cols \cup {"__source_name"} |->
                          IF c # "__source_name" THEN df.rows[i][c]
                          ELSE IF df.rows[i]["__source"] \in DOMAIN SHEET_NAME_MAP
                          THEN SHEET_NAME_MAP[df.rows[i]["__source"]]
                          ELSE df.rows[i]["__source"]]]]

\* the options of the three multiselects
Categories(df) == {df.rows[i]["category"] : i \in 1..Len(df.rows)}
AllTags(df) ==
    UNION {{split_tags(StrVal(df.rows[i]["tags"]))[j] :
               j \in 1..Len(split_tags(StrVal(df.rows[i]["tags"])))} :
           i \in 1..Len(df.rows)}
Sources(df) ==
    IF "__source_name" \in df.cols
    THEN {df.rows[i]["__source_name"] : i \in 1..Len(df.rows)}
    ELSE {}
SortChoices(df) ==
    IF Len(df.rows) > 0 THEN {"updated_at desc", "title asc"} ELSE {"title asc"}

\* hit(row) of the keyword filter, for the lower-cased keyword ql
Hit(row, ql) ==
    \E c \in {"title", "tags", "notes", "owner", "category"} :
        Contains(Lower(safe_str(StrVal(row[c]))), ql)

KeywordFilter(rows, q) ==
    IF q = <<>> THEN rows
    ELSE SelectSeq(rows, LAMBDA r : Hit(r, Lower(q)))

CategoryFilter(rows, sel) ==
    IF sel = {} THEN rows
    ELSE SelectSeq(rows, LAMBDA r : r["category"] \in sel)

TagFilter(rows, sel) ==
    IF sel = {} THEN rows
    ELSE SelectSeq(rows, LAMBDA r :
            \E t \in sel :
                \E j \in 1..Len(split_tags(StrVal(r["tags"]))) :
                    split_tags(StrVal(r["tags"]))[j] = t)

SourceFilter(rows, sel) ==
    IF sel = {} THEN rows
    ELSE SelectSeq(rows, LAMBDA r :
            "__source_name" \in DOMAIN r /\ r["__source_name"] \in sel)

\* the four filters, applied one after the other to view
ApplyFilters(df, f) ==
    SourceFilter(TagFilter(CategoryFilter(KeywordFilter(df.rows, f.q),
                                          f.sel_cat), f.sel_tag), f.sel_src)

\* code points of the characters the model uses
Ord ==
    (" " :> 32) @@ ("-" :> 45) @@ ("0" :> 48) @@ ("1" :> 49) @@ ("2" :> 50) @@
    (";" :> 59) @@ ("A" :> 65) @@ ("B" :> 66) @@ ("N" :> 78) @@ ("P" :> 80) @@
    ("X" :> 88) @@ ("Y" :> 89) @@ ("Z" :> 90) @@ ("a" :> 97) @@ ("b" :> 98) @@
    ("l" :> 108) @@ ("n" :> 110) @@ ("o" :> 111) @@ ("x" :> 120) @@ ("y" :> 121)

\* a < b for Python strings
StrLess(a, b) ==
    \E i \in 1..Len(b) :
        /\ \A j \in 1..(i - 1) : j <= Len(a) /\ a[j] = b[j]
        /\ i > Len(a) \/ Ord[a[i]] < Ord[b[i]]

\* whether row r's sort key is missing (NaT; a str title never is)
KeyIsNa(r, col) == col = "updated_at" /\ r[col].na

KeyLess(r1, r2, col) ==
    IF col = "updated_at" THEN r1[col].t < r2[col].t
    ELSE StrLess(r1[col], r2[col])

\* r put into the ascending sequence after the rows not greater than it
RECURSIVE Insert(_, _, _)
Insert(r, sorted, col) ==
    IF sorted = <<>> THEN <<r>>
    ELSE IF KeyLess(r, Head(sorted), col) THEN <<r>> \o sorted
    ELSE <<Head(sorted)>> \o Insert(r, Tail(sorted), col)

RECURSIVE Ascending(_, _)
Ascending(rows, col) ==
    IF rows = <<>> THEN <<>>
    ELSE Insert(rows[Len(rows)], Ascending(SubSeq(rows, 1, Len(rows) - 1), col), col)

Reverse(s) == [i \in 1..Len(s) |-> s[Len(s) + 1 - i]]

sort_values_na_first(rows, col, ascending) ==
    SelectSeq(rows, LAMBDA r : KeyIsNa(r, col))
        \o (IF ascending
            THEN Ascending(SelectSeq(rows, LAMBDA r : ~KeyIsNa(r, col)), col)
            ELSE Reverse(Ascending(SelectSeq(rows, LAMBDA r : ~KeyIsNa(r, col)), col)))

\* view.sort_values(col, ascending=..., na_position="last"): the rows with
\* a key in key order, then the rows whose key is missing
sort_values(rows, col, ascending) ==
    (IF ascending
     THEN Ascending(SelectSeq(rows, LAMBDA r : ~KeyIsNa(r, col)), col)
     ELSE Reverse(Ascending(SelectSeq(rows, LAMBDA r : ~KeyIsNa(r, col)), col)))
        \o SelectSeq(rows, LAMBDA r : KeyIsNa(r, col))

\* the sort section of the script
SortView(rows, cols, sort_by) ==
    IF Len(rows) = 0 THEN rows
    ELSE IF sort_by = "updated_at desc" /\ "updated_at" \in cols
    THEN sort_values(rows, "updated_at", FALSE)
    ELSE sort_values(rows, "title", TRUE)

(***************************************************************************)
(* SpecView: a loaded collection under every setting of the sidebar        *)
(***************************************************************************)
MaxViewRows == 3

\* raw records of two spreadsheets: A has an updated_at column, Z has none
ViewRecord(src, title, category, tags, updated) ==
    [src |-> src,
     row |-> [c \in SheetCols(src) |->
                CASE c = "title" -> StrVal(title)
                  [] c = "category" -> StrVal(category)
                  [] c = "tags" -> StrVal(tags)
                  [] c = "notes" -> StrVal(<<"n">>)
                  [] c = "updated_at" -> StrVal(updated)
                  [] OTHER -> StrVal(<<>>)]]

ViewRecords ==
    {ViewRecord(<<"B">>, <<" ", "a">>, <<"X">>, <<"a", ";", " ", "b">>, <<"2", "0", "2", "1">>),
     ViewRecord(<<"B">>, <<"B">>, <<"X", "Y">>, <<" ", "b">>, <<"2", "0", "2", "2">>),
     ViewRecord(<<"B">>, <<>>, <<"X">>, <<"n", "a", "n", ";">>, <<>>),
     ViewRecord(<<"B">>, <<"B">>, <<"X">>, <<>>, <<"x">>),
     ViewRecord(<<"Z">>, <<"a">>, <<"X", "Y">>, <<"b">>, <<>>)}

Keywords == {<<>>, <<"A">>, <<"N", "A">>}

\* the records of spreadsheet src among the picked ones, as its frame
SheetOf(picks, src) ==
    [cols |-> IF \E i \in 1..Len(picks) : picks[i].src = src
              THEN SheetCols(src) ELSE {},
     rows |-> [i \in 1..Len(SelectSeq(picks, LAMBDA p : p.src = src)) |->
                  SelectSeq(picks, LAMBDA p : p.src = src)[i].row]]

\* df as the script has it after load_many([B, Z]) and the name mapping
LoadedView(picks) ==
    WithSourceNames(Concat(
        <<normalize_df(WithSource(SheetOf(picks, <<"B">>), <<"B">>)),
          normalize_df(WithSource(SheetOf(picks, <<"Z">>), <<"Z">>))>>))

\* the widgets before the user touches them: nothing typed or selected, the
\* selectbox on its first option
DefaultFilter(df) ==
    [NoFilter EXCEPT !.sort_by =
        IF Len(df.rows) > 0 THEN "updated_at desc" ELSE "title asc"]

Perms(n) == {p \in [1..n -> 1..n] : \A i, j \in 1..n : p[i] = p[j] => i = j}

\* the views a script run can show for df under the widget values f: the
\* filters, then the sort; rows with equal sort keys come out in any order
\* (the default sort algorithm is not stable)
Views(df, f) ==
    LET rows == ApplyFilters(df, f)
    IN  {SortView([i \in 1..Len(rows) |-> rows[p[i]]], df.cols, f.sort_by) :
            p \in Perms(Len(rows))}

InitView ==
    /\ \E picks \in UNION {[1..k -> ViewRecords] : k \in 0..MaxViewRows} :
          viewDf = LoadedView(picks)
    /\ filt = DefaultFilter(viewDf)
    /\ view = <<>>
    /\ viewPc = "loaded"
    /\ IdleTags /\ IdleNorm /\ IdleLoad /\ IdlePage

\* the rest of the run that loaded df: the widgets at their defaults
Render ==
    /\ viewPc = "loaded"
    /\ view' \in Views(viewDf, filt)
    /\ viewPc' = "shown"
    /\ UNCHANGED <<viewDf, filt, tagVars, normVars, loadVars, pageVars>>

\* the rerun after the keyword box changes
TypeKeyword ==
    /\ viewPc = "shown"
    /\ \E q \in Keywords :
          /\ filt' = [filt EXCEPT !.q = q]
          /\ view' \in Views(viewDf, [filt EXCEPT !.q = q])
    /\ UNCHANGED <<viewDf, viewPc, tagVars, normVars, loadVars, pageVars>>

\* the rerun after the category multiselect changes
SelectCategories ==
    /\ viewPc = "shown"
    /\ \E sel \in SUBSET Categories(viewDf) :
          /\ filt' = [filt EXCEPT !.sel_cat = sel]
          /\ view' \in Views(viewDf, [filt EXCEPT !.sel_cat = sel])
    /\ UNCHANGED <<viewDf, viewPc, tagVars, normVars, loadVars, pageVars>>

\* the rerun after the tag multiselect changes
SelectTags ==
    /\ viewPc = "shown"
    /\ \E sel \in SUBSET AllTags(viewDf) :
          /\ filt' = [filt EXCEPT !.sel_tag = sel]
          /\ view' \in Views(viewDf, [filt EXCEPT !.sel_tag = sel])
    /\ UNCHANGED <<viewDf, viewPc, tagVars, normVars, loadVars, pageVars>>

\* the rerun after the source multiselect changes
SelectSources ==
    /\ viewPc = "shown"
    /\ \E sel \in SUBSET Sources(viewDf) :
          /\ filt' = [filt EXCEPT !.sel_src = sel]
          /\ view' \in Views(viewDf, [filt EXCEPT !.sel_src = sel])
    /\ UNCHANGED <<viewDf, viewPc, tagVars, normVars, loadVars, pageVars>>

\* the rerun after the sort selectbox changes
SelectSort ==
    /\ viewPc = "shown"
    /\ \E sb \in SortChoices(viewDf) :
          /\ filt' = [filt EXCEPT !.sort_by = sb]
          /\ view' \in Views(viewDf, [filt EXCEPT !.sort_by = sb])
    /\ UNCHANGED <<viewDf, viewPc, tagVars, normVars, loadVars, pageVars>>

NextView ==
    \/ Render
    \/ TypeKeyword
    \/ SelectCategories
    \/ SelectTags
    \/ SelectSources
    \/ SelectSort

SpecView == InitView /\ [][NextView]_vars

\* number of times row r occurs in rows
Count(rows, r) == Cardinality({i \in 1..Len(rows) : rows[i] = r})

\* the tags of a stored tags string: its trimmed, non-empty parts
ParsedTags(tags) == {Strip(Split(tags, ";")[j]) : j \in 1..Len(Split(tags, ";"))} \ {<<>>}

\* whether record r satisfies every active filter of f
Satisfies(r, f) ==
    /\ f.q = <<>> \/
          \E c \in {"title", "tags", "notes", "owner", "category"} :
              Contains(Lower(r[c]), Lower(f.q))
    /\ f.sel_cat = {} \/ r["category"] \in f.sel_cat
    /\ f.sel_tag = {} \/ ParsedTags(r["tags"]) \cap f.sel_tag # {}
    /\ f.sel_src = {} \/ r["__source_name"] \in f.sel_src

\* C5: the view holds exactly the records of the collection that satisfy
\* all active filters at once.
C5_ViewIsFilterConjunction ==
    viewPc = "shown" =>
        \A i \in 1..Len(viewDf.rows) :
            Count(view, viewDf.rows[i]) =
                IF Satisfies(viewDf.rows[i], filt)
                THEN Count(viewDf.rows, viewDf.rows[i])
                ELSE 0

\* C6: under 'title asc' the view is in ascending title order with every
\* record whose title is empty after all records with a non-empty title.
C6_TitleAscEmptyLast ==
    (viewPc = "shown" /\ filt.sort_by = "title asc") =>
        \A i, j \in 1..Len(view) :
            i < j =>
                /\ view[i]["title"] = <<>> => view[j]["title"] = <<>>
                /\ (view[i]["title"] # <<>> /\ view[j]["title"] # <<>>)
                      => ~StrLess(view[j]["title"], view[i]["title"])

\* whether record r has no timestamp
NoTimestamp(r) == "updated_at" \notin DOMAIN r \/ r["updated_at"].na

\* C7: under 'updated_at desc', in every non-empty view the records without
\* a timestamp come after all records with one, and the records with one
\* are in non-increasing timestamp order.
C7_UpdatedDescAbsentLast ==
    (viewPc = "shown" /\ filt.sort_by = "updated_at desc" /\ view # <<>>) =>
        \A i, j \in 1..Len(view) :
            i < j =>
                /\ NoTimestamp(view[i]) => NoTimestamp(view[j])
                /\ (~NoTimestamp(view[i]) /\ ~NoTimestamp(view[j]))
                      => view[i]["updated_at"].t >= view[j]["updated_at"].t

\* C7 witness: a collection holding, in this order, a record without a
\* timestamp, an older and a newer one, shown newest first, the record
\* without a timestamp last.
C7_Witness ==
    /\ viewPc = "shown"
    /\ filt.sort_by = "updated_at desc"
    /\ Len(viewDf.rows) = 3 /\ Len(view) = 3
    /\ NoTimestamp(viewDf.rows[1])
    /\ ~NoTimestamp(viewDf.rows[2]) /\ ~NoTimestamp(viewDf.rows[3])
    /\ viewDf.rows[2]["updated_at"].t < viewDf.rows[3]["updated_at"].t
    /\ view[1] = viewDf.rows[3] /\ view[2] = viewDf.rows[2]
    /\ view[3] = viewDf.rows[1]

====
